---- MODULE Spec2Model ----
(***************************************************************************)
(* Treasury backend: the chunked transfer engine.                          *)
(*                                                                         *)
(* Upload side: UploadsManager / ActiveUpload of                           *)
(* backend/src/api/utils/upload_utils.rs, called by the upload_chunk_api   *)
(* and finalise_upload_api handlers of backend/src/api/uploads.rs, with    *)
(* the size arithmetic of backend/src/api/formats.rs.                      *)
(*                                                                         *)
(* A chunk's bytes are opaque to the server: the code only ever looks at   *)
(* their length.  A chunk is therefore a record [id, len] (the id it was   *)
(* submitted under and its encrypted length), and a file is the sequence   *)
(* of the records written to it, the magic-number header first.            *)
(***************************************************************************)
EXTENDS Integers, Sequences, FiniteSets, TLC

VARIABLES
  active_uploads_map,  \* UploadsManager.active_uploads_map: handle -> ActiveUpload
  upload_dir,          \* files under user_upload_directory: handle -> contents on disk
  user_files_dir,      \* files under user_files_root_directory: handle -> contents
  issued_handles,      \* handles generate_file_handle has already returned
  last_call,           \* the request served last and its response
  client,              \* the scripted client of SpecOrder (idle under Spec)
  finalisers,          \* the finalise_upload calls in progress under SpecFinalise
  active_downloads_map,      \* DownloadsManager.active_downloads_map: handle -> ActiveDownload
  download_expiry_task_map,  \* DownloadsManager.download_expiry_task_map: handle -> task
  download_expiry_rx,        \* the handles sent to the expiry channel and not yet received
  expiry_tasks,              \* the tasks set_download_for_expiry has spawned: task -> state
  detector,                  \* the task of start_inactivity_detector: where it is in its loop
  reader,                    \* the try_read_chunk_as_stream call in progress
  streams,                   \* the streams returned to clients: stream -> state
  descriptions,              \* the open file descriptions of the process
  last_read,                 \* the try_read_chunk_as_stream call served last and its result
  last_expiry,               \* the expiry signal the inactivity detector received last
  calc,                \* the size computation of SpecFormats: its input and result
  requests,            \* the upload requests in progress under SpecRequests: caller -> request
  app_state_lock       \* the holder of the Mutex around AppState (NoCaller when free)

upload_vars == <<active_uploads_map, upload_dir, user_files_dir, issued_handles, last_call, client>>
finalise_vars == <<finalisers>>
download_vars == <<active_downloads_map, download_expiry_task_map, download_expiry_rx,
                   expiry_tasks, detector, reader, streams, descriptions, last_read,
                   last_expiry>>
format_vars == <<calc>>
request_vars == <<requests, app_state_lock>>

vars == <<upload_vars, finalise_vars, download_vars, format_vars, request_vars>>

----------------------------------------------------------------------------
(* constants.rs *)

NONCE_BYTE_SIZE == 24
POLY1305_TAG_BYTE_SIZE == 16
MAX_UPLOAD_CONCURRENT_CHUNKS == 4
ENCRYPTED_FILE_HEADER_SIZE == 4
CHUNK_ID_BYTE_SIZE == 4
CHUNK_DATA_SIZE == 2097152
ENCRYPTED_CHUNK_EXTRA_DATA_SIZE == CHUNK_ID_BYTE_SIZE + NONCE_BYTE_SIZE + POLY1305_TAG_BYTE_SIZE
ENCRYPTED_CHUNK_SIZE == CHUNK_DATA_SIZE + ENCRYPTED_CHUNK_EXTRA_DATA_SIZE

----------------------------------------------------------------------------
(* Bounds of the model *)

\* Declared file sizes under Spec are whole chunks, up to this many.
MaxFileChunks == 2
\* Chunk ids a client submits are -1..MaxChunkId.
MaxChunkId == 5
\* The scripted client of SpecOrder uploads files of up to this many chunks.
MaxOrderChunks == 4

HalfChunk == CHUNK_DATA_SIZE \div 2

Handles == {"h1"}
FileSizes == {n * CHUNK_DATA_SIZE : n \in 0..MaxFileChunks}
ChunkIds == (0 - 1)..MaxChunkId
\* Lengths of the chunk data submitted under Spec: too short for a chunk, an
\* empty payload and a full chunk.  (SpecOrder submits partial last chunks.)
DataLens == {ENCRYPTED_CHUNK_EXTRA_DATA_SIZE - 1,
             ENCRYPTED_CHUNK_EXTRA_DATA_SIZE,
             ENCRYPTED_CHUNK_SIZE}

Min(S) == CHOOSE x \in S : \A y \in S : x <= y
MinOf(a, b) == IF a <= b THEN a ELSE b

----------------------------------------------------------------------------
(* formats.rs *)

\* Variant of the count below that always adds a chunk for the remainder.
calc_file_chunk_count_up(raw_file_size) ==
  raw_file_size \div CHUNK_DATA_SIZE + 1

calc_file_chunk_count(raw_file_size) ==
  LET quotient == raw_file_size \div CHUNK_DATA_SIZE
      remainder == raw_file_size % CHUNK_DATA_SIZE
  IN IF remainder = 0 THEN quotient ELSE quotient + 1

\* calc_encrypted_file_size without the size of the file header.
calc_encrypted_file_size_no_header(raw_file_size) ==
  LET chunk_count == calc_file_chunk_count(raw_file_size)
      overhead == chunk_count * ENCRYPTED_CHUNK_EXTRA_DATA_SIZE
  IN overhead + raw_file_size

calc_encrypted_file_size(raw_file_size) ==
  LET chunk_count == calc_file_chunk_count(raw_file_size)
      header_size == ENCRYPTED_FILE_HEADER_SIZE
      overhead == header_size + (chunk_count * ENCRYPTED_CHUNK_EXTRA_DATA_SIZE)
  IN overhead + raw_file_size

\* calc_raw_chunk_size taking off the nonce and the tag but not the chunk id.
calc_raw_chunk_size_no_id(encrypted_chunk_size) ==
  encrypted_chunk_size - (NONCE_BYTE_SIZE + POLY1305_TAG_BYTE_SIZE)

\* calc_raw_chunk_size taking nothing off.
calc_raw_chunk_size_whole(encrypted_chunk_size) ==
  encrypted_chunk_size

\* The difference as an integer; below zero it stands for the u64 value
\* 2^64 + difference that the subtraction wraps to.
calc_raw_chunk_size(encrypted_chunk_size) ==
  encrypted_chunk_size - ENCRYPTED_CHUNK_EXTRA_DATA_SIZE

----------------------------------------------------------------------------
(* ActiveUpload *)

\* The record the magic number leaves in the file.
FileHeader == [id |-> 0 - 1, len |-> ENCRYPTED_FILE_HEADER_SIZE]

\* ActiveUpload::new, followed by the header write of UploadsManager::new_upload.
\* buf_writer is everything handed to the writer so far; it reaches the file in
\* upload_dir when finalise_upload shuts the writer down.
\* write_buffered_chunks keeps its position in prev_written_chunk_id, the id of
\* the chunk written last, which is -1 while nothing is written (chunk ids
\* start at 0); next_expected_chunk_id is prev_written_chunk_id + 1.
NewActiveUpload(file_size) ==
  [ file_size |-> file_size,
    written_bytes |-> 0,
    prev_written_chunk_id |-> 0 - 1,
    buffered_chunks |-> << >>,
    buf_writer |-> <<FileHeader>>,
    finalise_in_progress |-> FALSE ]

\* The expected encrypted size of the chunk at the current write position.
expected_enc_chunk_size(self) ==
  LET bytes_left_to_write == self.file_size - self.written_bytes
  IN MinOf(bytes_left_to_write + ENCRYPTED_CHUNK_EXTRA_DATA_SIZE, ENCRYPTED_CHUNK_SIZE)

\* Variants of the test below: the inverted test, and one that lets ids at or
\* below the last written one through.
IsNextChunk_ne(chunk_id, prev_written_chunk_id) ==
  chunk_id - prev_written_chunk_id # 1

IsNextChunk_le(chunk_id, prev_written_chunk_id) ==
  chunk_id - prev_written_chunk_id <= 1

\* "Write chunk to disk when this chunk id is supposed to come next."
IsNextChunk(chunk_id, prev_written_chunk_id) ==
  chunk_id - prev_written_chunk_id = 1

\* The loop of write_buffered_chunks over the chunks still to visit (todo), in
\* ascending id order.  A size mismatch returns at once, before the written
\* chunks are removed from the map; the first chunk that is not next ends the loop.
\* The result is the upload as the call leaves it, the outcome, the ids written
\* by the call and, for a size mismatch, the id of the chunk of the wrong size (at).
RECURSIVE write_loop(_, _, _)
write_loop(self, todo, written_chunk_ids) ==
  LET done == [ upload |-> [self EXCEPT !.buffered_chunks =
                               [i \in (DOMAIN self.buffered_chunks) \ written_chunk_ids
                                  |-> self.buffered_chunks[i]]],
                status |-> "Ok",
                written |-> written_chunk_ids,
                at |-> 0 - 1 ]
  IN IF todo = {} THEN done
     ELSE LET chunk_id == Min(todo)
              enc_chunk_size == self.buffered_chunks[chunk_id]
              raw_chunk_size == calc_raw_chunk_size(enc_chunk_size)
          IN IF enc_chunk_size # expected_enc_chunk_size(self)
             THEN [ upload |-> self, status |-> "ChunkSizeMismatch",
                    written |-> written_chunk_ids, at |-> chunk_id ]
             ELSE IF IsNextChunk(chunk_id, self.prev_written_chunk_id)
             THEN write_loop(
                    [self EXCEPT !.buf_writer = Append(@, [id |-> chunk_id, len |-> enc_chunk_size]),
                                 !.written_bytes = @ + raw_chunk_size,
                                 !.prev_written_chunk_id = chunk_id],
                    todo \ {chunk_id},
                    written_chunk_ids \cup {chunk_id})
             ELSE done

write_buffered_chunks(self) ==
  write_loop(self, DOMAIN self.buffered_chunks, {})

\* BTreeMap::insert replaces the value of a key that is already present.
try_write_chunk(self, new_chunk_id, data) ==
  write_buffered_chunks(
    [self EXCEPT !.buffered_chunks =
       [i \in (DOMAIN self.buffered_chunks) \cup {new_chunk_id} |->
          IF i = new_chunk_id THEN data ELSE self.buffered_chunks[i]]])

----------------------------------------------------------------------------
(* upload_chunk_api *)

\* The validation closure: chunk id not negative, data length within
\* ENCRYPTED_CHUNK_EXTRA_DATA_SIZE..ENCRYPTED_CHUNK_SIZE.
ChunkRequestValid(chunk_id, data) ==
  /\ ~(chunk_id < 0)
  /\ ~(data < ENCRYPTED_CHUNK_EXTRA_DATA_SIZE \/ data > ENCRYPTED_CHUNK_SIZE)

\* Variant of the test below that never finds a duplicate.
IsDuplicateChunk_never(self, chunk_id) ==
  FALSE

\* "Ensure chunk id is not a duplicate"
IsDuplicateChunk(self, chunk_id) ==
  chunk_id \in DOMAIN self.buffered_chunks

\* Variant of the test below that lets one more chunk in.
TooManyBuffered_gt(self) ==
  Cardinality(DOMAIN self.buffered_chunks) > MAX_UPLOAD_CONCURRENT_CHUNKS

\* "Ensure not too many chunks are buffered"
TooManyBuffered(self) ==
  Cardinality(DOMAIN self.buffered_chunks) >= MAX_UPLOAD_CONCURRENT_CHUNKS

\* What the handler does with a found upload.
accept_chunk(self, chunk_id, data) ==
  IF IsDuplicateChunk(self, chunk_id)
  THEN [upload |-> self, status |-> "DuplicateChunk", written |-> {}, at |-> 0 - 1]
  ELSE IF TooManyBuffered(self)
  THEN [upload |-> self, status |-> "TooManyPendingChunks", written |-> {}, at |-> 0 - 1]
  ELSE try_write_chunk(self, chunk_id, data)

\* Where a submitted chunk id stands relative to the upload's write position.
Turn(self, chunk_id) ==
  IF chunk_id <= self.prev_written_chunk_id THEN "stale"
  ELSE IF chunk_id = self.prev_written_chunk_id + 1 THEN "next"
  ELSE "ahead"

\* The request served last: its operation and handle, where its chunk id stood
\* when it arrived (turn) and whether a chunk was buffered under it then
\* (buffered), and the response (status, reported byte count).
\* No response of the code carries a byte count; bytes_left is where one would be.
NoBytes == 0 - 1

Response(op, handle, turn, buffered, status) ==
  [op |-> op, handle |-> handle, turn |-> turn, buffered |-> buffered,
   status |-> status, bytes_left |-> NoBytes]

is_handle_valid(handle) ==
  handle \in DOMAIN active_uploads_map

\* A removal that leaves the entry where it is.
Without_keep(map, handle) ==
  map

\* A map or directory without the entry of handle.
Without(map, handle) ==
  [h \in (DOMAIN map) \ {handle} |-> map[h]]

IdleClient == [order |-> << >>, pos |-> 0, all_ok |-> TRUE, within |-> TRUE]

\* No finalise_upload call is in progress.
NoFinalisers == finalisers = << >>

\* DownloadsManager::new, no request served yet.
NoDownloads ==
  /\ active_downloads_map = << >>
  /\ download_expiry_task_map = << >>
  /\ download_expiry_rx = << >>
  /\ expiry_tasks = << >>
  /\ detector = [pc |-> "recv"]
  /\ reader = [pc |-> "idle", calls |-> 0]
  /\ streams = << >>
  /\ descriptions = << >>
  /\ last_read = [status |-> "none"]
  /\ last_expiry = [task |-> 0]

NoCalc == calc = [op |-> "none"]

\* No upload request is in progress and the Mutex around AppState is free.
NoCaller == 0
NoRequests == requests = << >> /\ app_state_lock = NoCaller

Init ==
  /\ active_uploads_map = << >>
  /\ upload_dir = << >>
  /\ user_files_dir = << >>
  /\ issued_handles = {}
  /\ last_call = Response("none", "", "none", FALSE, "Ok")
  /\ client = IdleClient
  /\ NoFinalisers /\ NoDownloads /\ NoCalc /\ NoRequests

\* start_upload_api: a fresh handle, then UploadsManager::new_upload.  Every size
\* of FileSizes passes the handler's MAX_FILE_SIZE (1 TiB) validation.
NewUpload(handle, file_size) ==
  /\ handle \notin issued_handles
  /\ issued_handles' = issued_handles \cup {handle}
  /\ upload_dir' = (handle :> << >>) @@ upload_dir
  /\ active_uploads_map' = (handle :> NewActiveUpload(file_size)) @@ active_uploads_map
  /\ last_call' = Response("new_upload", handle, "none", FALSE, "Ok")
  /\ UNCHANGED <<user_files_dir, client, finalise_vars, download_vars, format_vars, request_vars>>

\* upload_chunk_api with the chunk handling of ActiveUpload::try_write_chunk: the
\* whole request, served under the lock of the application state.
UploadChunkServed(handle, chunk_id, data) ==
  /\ IF ~ChunkRequestValid(chunk_id, data)
     THEN /\ last_call' = Response("upload_chunk", handle, "none", FALSE, "BadRequest")
          /\ UNCHANGED active_uploads_map
     ELSE IF handle \notin DOMAIN active_uploads_map
     THEN /\ last_call' = Response("upload_chunk", handle, "none", FALSE, "UnknownHandle")
          /\ UNCHANGED active_uploads_map
     ELSE LET r == accept_chunk(active_uploads_map[handle], chunk_id, data)
          IN /\ active_uploads_map' = [active_uploads_map EXCEPT ![handle] = r.upload]
             /\ last_call' = Response("upload_chunk", handle,
                                      Turn(active_uploads_map[handle], chunk_id),
                                      chunk_id \in DOMAIN active_uploads_map[handle].buffered_chunks,
                                      r.status)
  /\ UNCHANGED <<upload_dir, user_files_dir, issued_handles>>

UploadChunkRequest(handle, chunk_id, data) ==
  /\ UploadChunkServed(handle, chunk_id, data)
  /\ UNCHANGED <<finalise_vars, download_vars, format_vars, request_vars>>

UploadChunk(handle, chunk_id, data) ==
  /\ UploadChunkRequest(handle, chunk_id, data)
  /\ UNCHANGED client

\* A shutdown that closes the file without flushing the writer.
shutdown_unflushed(file, buf_writer) ==
  file

\* "Shutdown the internal buf writer": what the file on disk holds after
\* buf_writer.shutdown() succeeded, everything that was written to the writer.
shutdown(file, buf_writer) ==
  buf_writer

\* A failed rename that takes the file at path away.
rename_failed_removes(dir, path) ==
  Without(dir, path)

\* The directory of the temporary files after tokio::fs::rename of path
\* returned an error: nothing deletes the file.
rename_failed(dir, path) ==
  dir

\* UploadsManager::finalise_upload.  shutdown_ok and rename_ok are the outcomes of
\* the two filesystem calls.  The upload leaves the map before anything is
\* checked; every error return drops it, the temporary file stays where it is.
FinaliseUploadServed(handle, shutdown_ok, rename_ok) ==
  /\ IF ~is_handle_valid(handle)
     THEN /\ last_call' = Response("finalise_upload", handle, "none", FALSE, "UnknownHandle")
          /\ UNCHANGED <<active_uploads_map, upload_dir, user_files_dir>>
     ELSE LET upload == active_uploads_map[handle]
          IN /\ active_uploads_map' = Without(active_uploads_map, handle)
             /\ IF upload.buffered_chunks # << >>
                THEN /\ last_call' = Response("finalise_upload", handle, "none", FALSE, "StillBufferedChunks")
                     /\ UNCHANGED <<upload_dir, user_files_dir>>
                ELSE IF ~shutdown_ok
                THEN /\ last_call' = Response("finalise_upload", handle, "none", FALSE, "IoError")
                     /\ UNCHANGED <<upload_dir, user_files_dir>>
                ELSE IF ~rename_ok
                THEN /\ last_call' = Response("finalise_upload", handle, "none", FALSE, "FinalizeIoError")
                     /\ upload_dir' = rename_failed(
                          [upload_dir EXCEPT ![handle] = shutdown(upload_dir[handle], upload.buf_writer)],
                          handle)
                     /\ UNCHANGED user_files_dir
                ELSE /\ last_call' = Response("finalise_upload", handle, "none", FALSE, "Ok")
                     /\ upload_dir' = Without(upload_dir, handle)
                     /\ user_files_dir' =
                          (handle :> shutdown(upload_dir[handle], upload.buf_writer)) @@ user_files_dir
  /\ UNCHANGED issued_handles

FinaliseUpload(handle, shutdown_ok, rename_ok) ==
  /\ FinaliseUploadServed(handle, shutdown_ok, rename_ok)
  /\ UNCHANGED <<client, finalise_vars, download_vars, format_vars, request_vars>>

Next ==
  \/ \E handle \in Handles, file_size \in FileSizes : NewUpload(handle, file_size)
  \/ \E handle \in Handles, shutdown_ok \in BOOLEAN, rename_ok \in BOOLEAN :
       FinaliseUpload(handle, shutdown_ok, rename_ok)
  \/ \E handle \in Handles, chunk_id \in ChunkIds, data \in DataLens :
       UploadChunk(handle, chunk_id, data)

Spec == Init /\ [][Next]_vars

----------------------------------------------------------------------------
(* A client that uploads one file, each chunk once, in an order of its choice *)

OrderSizes == {n * HalfChunk : n \in 1..(2 * MaxOrderChunks)}

\* The orders in which the ids 0..n-1 can be delivered.
Orders(n) ==
  {o \in [1..n -> 0..(n - 1)] : \A i, j \in 1..n : o[i] = o[j] => i = j}

\* The encrypted length of chunk chunk_id of a file of file_size bytes: all
\* chunks full except a possibly shorter last one.
CorrectChunkLen(file_size, chunk_id) ==
  MinOf(CHUNK_DATA_SIZE, file_size - chunk_id * CHUNK_DATA_SIZE) + ENCRYPTED_CHUNK_EXTRA_DATA_SIZE

OrderHandle == CHOOSE h \in Handles : TRUE

\* The upload is open (the state NewUpload leaves) and the client has picked its order.
InitOrder ==
  /\ \E file_size \in OrderSizes :
       /\ active_uploads_map = (OrderHandle :> NewActiveUpload(file_size))
       /\ client \in [order : Orders(calc_file_chunk_count(file_size)),
                       pos : {0}, all_ok : {TRUE}, within : {TRUE}]
  /\ upload_dir = (OrderHandle :> << >>)
  /\ user_files_dir = << >>
  /\ issued_handles = {OrderHandle}
  /\ last_call = Response("new_upload", OrderHandle, "none", FALSE, "Ok")
  /\ NoFinalisers /\ NoDownloads /\ NoCalc /\ NoRequests

\* The client delivers the next chunk of its order, correctly sized.  It notes
\* whether every call so far succeeded (all_ok) and whether every call so far
\* found fewer than MAX_UPLOAD_CONCURRENT_CHUNKS chunks buffered (within).
Deliver ==
  /\ client.pos < Len(client.order)
  /\ LET chunk_id == client.order[client.pos + 1]
         upload == active_uploads_map[OrderHandle]
     IN /\ UploadChunkRequest(OrderHandle, chunk_id, CorrectChunkLen(upload.file_size, chunk_id))
        /\ client' = [client EXCEPT
                        !.pos = @ + 1,
                        !.all_ok = @ /\ last_call'.status = "Ok",
                        !.within = @ /\ Cardinality(DOMAIN upload.buffered_chunks)
                                          < MAX_UPLOAD_CONCURRENT_CHUNKS]

NextOrder == Deliver

SpecOrder == InitOrder /\ [][NextOrder]_vars

\* The upload after chunks 0..n-1 of its file were delivered in ascending order.
RECURSIVE AscendingUpload(_, _)
AscendingUpload(file_size, n) ==
  IF n = 0 THEN NewActiveUpload(file_size)
  ELSE accept_chunk(AscendingUpload(file_size, n - 1), n - 1,
                    CorrectChunkLen(file_size, n - 1)).upload

----------------------------------------------------------------------------
(* Properties *)

Uploads == DOMAIN active_uploads_map
Buffered(self) == DOMAIN self.buffered_chunks

\* The container of handle arrives in permanent storage in this step.
Persisted(handle) ==
  handle \in DOMAIN user_files_dir' /\ handle \notin DOMAIN user_files_dir

\* C1: a container is moved into permanent storage only by a finalise call
\* that finds written_bytes equal to the declared size and no chunk buffered.
C1_PersistOnlyComplete ==
  [][\A handle \in Handles :
       Persisted(handle) =>
         /\ handle \in Uploads
         /\ active_uploads_map[handle].written_bytes = active_uploads_map[handle].file_size
         /\ active_uploads_map[handle].buffered_chunks = << >>]_vars

\* C2: when the client has delivered every chunk of its file once, correctly
\* sized, in an order during which the buffer never was full, every call has
\* succeeded and the upload is the one ascending delivery produces.
C2_OrderIndependent ==
  (client.pos = Len(client.order) /\ client.order # << >> /\ client.within) =>
    /\ client.all_ok
    /\ active_uploads_map[OrderHandle] =
         AscendingUpload(active_uploads_map[OrderHandle].file_size, Len(client.order))

\* The records of a file after the header are chunks 0, 1, ... in this order.
AscendingChunks(file) ==
  /\ Len(file) >= 1
  /\ file[1] = FileHeader
  /\ \A i \in 2..Len(file) : file[i].id = i - 2

C3_Written ==
  /\ \A handle \in Uploads :
       LET self == active_uploads_map[handle]
       IN /\ AscendingChunks(self.buf_writer)
          /\ Len(self.buf_writer) = self.prev_written_chunk_id + 2
  /\ \A handle \in DOMAIN user_files_dir : AscendingChunks(user_files_dir[handle])

C3_Step ==
  \A handle \in Uploads \cap DOMAIN active_uploads_map' :
    LET self == active_uploads_map[handle]
        after == active_uploads_map'[handle]
    IN \* the file only grows, by one record per step of the chunk id
       /\ Len(after.buf_writer) >= Len(self.buf_writer)
       /\ SubSeq(after.buf_writer, 1, Len(self.buf_writer)) = self.buf_writer
       /\ after.prev_written_chunk_id - self.prev_written_chunk_id
            = Len(after.buf_writer) - Len(self.buf_writer)
       \* each record written is the chunk that was next then, with the bytes
       \* it was buffered with
       /\ \A i \in (Len(self.buf_writer) + 1)..Len(after.buf_writer) :
            /\ after.buf_writer[i].id = self.prev_written_chunk_id + (i - Len(self.buf_writer))
            /\ after.buf_writer[i].id \in Buffered(self) =>
                 after.buf_writer[i].len = self.buffered_chunks[after.buf_writer[i].id]
       \* a call that succeeded has not stopped in front of the chunk that is next
       /\ (last_call'.status = "Ok" /\ Buffered(after) # {}) =>
            Min(Buffered(after)) # after.prev_written_chunk_id + 1

C4_IncompleteRejected ==
  [][\A handle \in Uploads :
       ( /\ last_call'.op = "finalise_upload"
         /\ last_call'.handle = handle
         /\ last_call'.status \notin {"IoError", "FinalizeIoError"}
         /\ active_uploads_map[handle].written_bytes < active_uploads_map[handle].file_size ) =>
         /\ last_call'.status = "IncompleteUpload"
         /\ last_call'.bytes_left = active_uploads_map[handle].file_size
                                      - active_uploads_map[handle].written_bytes
         /\ user_files_dir' = user_files_dir
         /\ upload_dir' = upload_dir]_vars

\* C5: no upload ever buffers more than MAX_UPLOAD_CONCURRENT_CHUNKS chunks.
C5_BufferBounded ==
  \A handle \in Uploads :
    Cardinality(Buffered(active_uploads_map[handle])) <= MAX_UPLOAD_CONCURRENT_CHUNKS

\* The buffer of an upload is full.
C5_Witness ==
  \E handle \in Uploads :
    /\ Cardinality(Buffered(active_uploads_map[handle])) = MAX_UPLOAD_CONCURRENT_CHUNKS
    /\ last_call.op = "upload_chunk" /\ last_call.status = "Ok"

\* The step serves an upload_chunk request that passed validation, for an
\* upload that is in the map.  (Every action writes last_call, so last_call'
\* is the request the step served.)
ServesChunk(handle) ==
  /\ handle \in Uploads
  /\ last_call'.op = "upload_chunk"
  /\ last_call'.handle = handle
  /\ last_call'.status \notin {"BadRequest", "UnknownHandle"}

\* C6: with the buffer full, a chunk with a new id that is not the next
\* expected one is answered TooManyPendingChunks and the upload, its file
\* included, stays as it was.
C6_Backpressure ==
  [][\A handle \in Handles :
       ( /\ ServesChunk(handle)
         /\ Cardinality(Buffered(active_uploads_map[handle])) >= MAX_UPLOAD_CONCURRENT_CHUNKS
         /\ ~last_call'.buffered
         /\ last_call'.turn # "next" ) =>
         /\ last_call'.status = "TooManyPendingChunks"
         /\ active_uploads_map' = active_uploads_map
         /\ upload_dir' = upload_dir /\ user_files_dir' = user_files_dir]_vars

\* A chunk that was not next has been turned away from a full buffer.
C6_Witness ==
  /\ last_call.op = "upload_chunk"
  /\ last_call.status = "TooManyPendingChunks"
  /\ last_call.turn # "next"
  /\ last_call.handle \in Uploads
  /\ Cardinality(Buffered(active_uploads_map[last_call.handle])) = MAX_UPLOAD_CONCURRENT_CHUNKS

C8_StaleRejected ==
  [][\A handle \in Uploads, chunk_id \in ChunkIds, data \in DataLens :
       ( /\ ChunkRequestValid(chunk_id, data)
         /\ chunk_id <= active_uploads_map[handle].prev_written_chunk_id
         /\ chunk_id \notin Buffered(active_uploads_map[handle])
         /\ UploadChunk(handle, chunk_id, data) ) =>
         /\ last_call'.status = "StaleChunk"
         /\ active_uploads_map' = active_uploads_map]_vars

\* C9: a chunk whose id is already buffered is answered DuplicateChunk; the
\* bytes buffered under that id, written_bytes and the next expected id stay.
C9_DuplicateRejected ==
  [][\A handle \in Handles :
       (ServesChunk(handle) /\ last_call'.buffered) =>
         /\ last_call'.status = "DuplicateChunk"
         /\ active_uploads_map' = active_uploads_map]_vars

\* A buffered chunk was submitted again while it waited for its turn.
C9_Witness ==
  /\ last_call.op = "upload_chunk"
  /\ last_call.status = "DuplicateChunk"
  /\ last_call.buffered
  /\ last_call.turn = "ahead"
  /\ last_call.handle \in Uploads

\* C10: when a call fails with ChunkSizeMismatch, the chunk of the wrong size
\* is rejected (it is not buffered afterwards, so a correctly sized chunk with
\* its id can follow and be written), and the chunks the call wrote before it
\* are committed and no longer buffered.
C10_MismatchRejected ==
  [][\A handle \in Uploads, chunk_id \in ChunkIds, data \in DataLens :
       ( /\ ChunkRequestValid(chunk_id, data)
         /\ UploadChunk(handle, chunk_id, data)
         /\ last_call'.status = "ChunkSizeMismatch" ) =>
         LET self == active_uploads_map[handle]
             after == active_uploads_map'[handle]
             r == accept_chunk(self, chunk_id, data)
         IN /\ r.at \notin Buffered(after)
            /\ r.written \cap Buffered(after) = {}
            /\ after.prev_written_chunk_id = self.prev_written_chunk_id + Cardinality(r.written)
            /\ Len(after.buf_writer) = Len(self.buf_writer) + Cardinality(r.written)]_vars

\* The number of bytes of a file: the lengths of its records added up.
RECURSIVE FileBytes(_)
FileBytes(file) ==
  IF file = << >> THEN 0 ELSE Head(file).len + FileBytes(Tail(file))

\* The step answers a finalise_upload call on handle, an upload in the map, with status.
Finalised(handle, status) ==
  /\ handle \in Uploads
  /\ last_call'.op = "finalise_upload"
  /\ last_call'.handle = handle
  /\ last_call'.status = status

\* C11: a finalise call that succeeds for an upload of declared size S returns
\* the size of the container, and the container it leaves in permanent storage
\* has exactly calc_encrypted_file_size(S) bytes.
C11_FinalSize ==
  [][\A handle \in Handles :
       Finalised(handle, "Ok") =>
         /\ handle \in DOMAIN user_files_dir'
         /\ FileBytes(user_files_dir'[handle])
              = calc_encrypted_file_size(active_uploads_map[handle].file_size)
         /\ last_call'.bytes_left
              = calc_encrypted_file_size(active_uploads_map[handle].file_size)]_vars

\* C13: an upload leaves the map only in a finalise call that finds it complete
\* (every declared byte written, nothing buffered); a finalise call answered
\* with a rejection for missing bytes or buffered chunks leaves the map as it was.
C13_RemovedOnlyWhenComplete ==
  [][\A handle \in Uploads :
       /\ handle \notin DOMAIN active_uploads_map' =>
            /\ last_call'.op = "finalise_upload" /\ last_call'.handle = handle
            /\ active_uploads_map[handle].written_bytes = active_uploads_map[handle].file_size
            /\ active_uploads_map[handle].buffered_chunks = << >>
       /\ (Finalised(handle, "StillBufferedChunks") \/ Finalised(handle, "IncompleteUpload")) =>
            active_uploads_map' = active_uploads_map]_vars

----------------------------------------------------------------------------
(* finalise_upload called by several requests at once *)

\* UploadsManager is shared by reference (its methods take &self, its map is a
\* DashMap), so calls of finalise_upload on one handle can overlap.  A call is at
\* "idle" before it starts, at "checked" after is_handle_valid answered true, at
\* "removed" once it owns the upload it took out of the map, at "flushed" when
\* it has shut the writer down, and "done" after.
MaxFinalisers == 2

Finalisers == 1..MaxFinalisers

IdleFinaliser == [pc |-> "idle", result |-> "none"]

\* An upload of the handle is open, chunks 0..n-1 of its file have arrived in
\* order, and no call has started.
InitFinalise ==
  /\ \E file_size \in OrderSizes :
       \E n \in 0..calc_file_chunk_count(file_size) :
         active_uploads_map = (OrderHandle :> AscendingUpload(file_size, n))
  /\ upload_dir = (OrderHandle :> << >>)
  /\ user_files_dir = << >>
  /\ issued_handles = {OrderHandle}
  /\ last_call = Response("new_upload", OrderHandle, "none", FALSE, "Ok")
  /\ client = IdleClient
  /\ finalisers = [c \in Finalisers |-> IdleFinaliser]
  /\ NoDownloads /\ NoCalc /\ NoRequests

\* "Ensure handle is valid"
FinaliseCheck(c) ==
  /\ finalisers[c].pc = "idle"
  /\ finalisers' = [finalisers EXCEPT ![c] =
       IF is_handle_valid(OrderHandle)
       THEN [pc |-> "checked", result |-> "none"]
       ELSE [pc |-> "done", result |-> "UnknownHandle"]]
  /\ UNCHANGED <<upload_vars, download_vars, format_vars, request_vars>>

\* "Get upload by removing it from the map": remove(handle).unwrap() panics
\* when another call has taken the upload since the check.
FinaliseRemove(c) ==
  /\ finalisers[c].pc = "checked"
  /\ IF OrderHandle \in DOMAIN active_uploads_map
     THEN /\ finalisers' = [finalisers EXCEPT ![c] =
               [pc |-> "removed", result |-> "none",
                upload |-> active_uploads_map[OrderHandle]]]
          /\ active_uploads_map' = Without(active_uploads_map, OrderHandle)
     ELSE /\ finalisers' = [finalisers EXCEPT ![c] = [pc |-> "done", result |-> "Panic"]]
          /\ UNCHANGED active_uploads_map
  /\ UNCHANGED <<upload_dir, user_files_dir, issued_handles, last_call, client>>
  /\ UNCHANGED <<download_vars, format_vars, request_vars>>

\* The call that owns the upload checks its buffered chunks and shuts the
\* writer down; after a successful shutdown the call is at "flushed".
FinaliseShutdown(c, shutdown_ok) ==
  /\ finalisers[c].pc = "removed"
  /\ LET upload == finalisers[c].upload
     IN IF upload.buffered_chunks # << >>
        THEN /\ finalisers' = [finalisers EXCEPT ![c] =
                  [pc |-> "done", result |-> "StillBufferedChunks"]]
             /\ UNCHANGED upload_dir
        ELSE IF ~shutdown_ok
        THEN /\ finalisers' = [finalisers EXCEPT ![c] = [pc |-> "done", result |-> "IoError"]]
             /\ UNCHANGED upload_dir
        ELSE /\ finalisers' = [finalisers EXCEPT ![c] =
                  [pc |-> "flushed", result |-> "none", upload |-> upload]]
             /\ upload_dir' = [upload_dir EXCEPT ![OrderHandle] =
                                shutdown(upload_dir[OrderHandle], upload.buf_writer)]
  /\ UNCHANGED <<active_uploads_map, user_files_dir, issued_handles, last_call, client>>
  /\ UNCHANGED <<download_vars, format_vars, request_vars>>

\* "Move uploaded file to user files directory"
FinaliseRename(c, rename_ok) ==
  /\ finalisers[c].pc = "flushed"
  /\ IF rename_ok
     THEN /\ finalisers' = [finalisers EXCEPT ![c] = [pc |-> "done", result |-> "Ok"]]
          /\ user_files_dir' = (OrderHandle :> upload_dir[OrderHandle]) @@ user_files_dir
          /\ upload_dir' = Without(upload_dir, OrderHandle)
     ELSE /\ finalisers' = [finalisers EXCEPT ![c] =
               [pc |-> "done", result |-> "FinalizeIoError"]]
          /\ upload_dir' = rename_failed(upload_dir, OrderHandle)
          /\ UNCHANGED user_files_dir
  /\ UNCHANGED <<active_uploads_map, issued_handles, last_call, client>>
  /\ UNCHANGED <<download_vars, format_vars, request_vars>>

NextFinalise ==
  \/ \E c \in Finalisers : FinaliseCheck(c)
  \/ \E c \in Finalisers : FinaliseRemove(c)
  \/ \E c \in Finalisers, shutdown_ok \in BOOLEAN : FinaliseShutdown(c, shutdown_ok)
  \/ \E c \in Finalisers, rename_ok \in BOOLEAN : FinaliseRename(c, rename_ok)

SpecFinalise == InitFinalise /\ [][NextFinalise]_vars

\* C12: of the finalise calls made on one handle, in any interleaving, at most
\* one gets to flush and rename and to answer for it; every other call returns
\* AlreadyFinalizing or UnknownHandle, and no call crashes.
C12_OneFinaliseWins ==
  /\ \A c \in DOMAIN finalisers : finalisers[c].result # "Panic"
  /\ Cardinality({c \in DOMAIN finalisers :
                    /\ finalisers[c].pc \in {"removed", "flushed", "done"}
                    /\ finalisers[c].result \notin {"AlreadyFinalizing", "UnknownHandle"}}) <= 1

----------------------------------------------------------------------------
(* DownloadsManager: bounds and arithmetic *)

\* try_read_chunk_as_stream is called at most this many times.
MaxReads == 2
\* The chunk ids read are 0..MaxReadChunkId.
MaxReadChunkId == 2
\* The capacity of the expiry channel.  constants.rs of this source tree does
\* not define DOWNLOADS_EXPIRY_MPSC_CHANNEL_BUFFER_SIZE; a task whose send
\* finds the channel full waits, as it does while it sleeps.
MaxChannel == 2

\* The raw sizes of the files in permanent storage: empty, one chunk, one chunk
\* and a half.
StoredSizes == {n * HalfChunk : n \in {0, 2, 3}}

ReadChunkIds == 0..MaxReadChunkId

\* The container a complete upload of file_size bytes leaves.
StoredContainer(file_size) ==
  AscendingUpload(file_size, calc_file_chunk_count(file_size)).buf_writer

\* overflow-checks is on in a debug build and off in a release build.
Builds == {"debug", "release"}

\* "Calculate read size and offset which ignores the chunk header"
\* (The chunk ids of the model are far from where the u64 product overflows.)
calc_read_offset(chunk_id) ==
  chunk_id * ENCRYPTED_CHUNK_SIZE + ENCRYPTED_FILE_HEADER_SIZE

\* The u64 subtraction download.file_size - read_offset underflows when
\* read_offset is the larger.
Underflows(file_size, read_offset) ==
  file_size < read_offset

\* Variant of the size below that always asks for a whole chunk.
calc_read_size_full(file_size, read_offset) ==
  ENCRYPTED_CHUNK_SIZE

\* std::cmp::min(enc_chunk_size_u64, download.file_size - read_offset).  In a
\* release build an underflowing difference wraps to 2^64 - (read_offset -
\* file_size), which is above ENCRYPTED_CHUNK_SIZE for every file and chunk id
\* of the model, so the minimum is ENCRYPTED_CHUNK_SIZE.  (In a debug build the
\* subtraction panics; see ReadStream.)
calc_read_size(file_size, read_offset) ==
  IF Underflows(file_size, read_offset)
  THEN ENCRYPTED_CHUNK_SIZE
  ELSE MinOf(ENCRYPTED_CHUNK_SIZE, file_size - read_offset)

\* "Validate read offset"
OffsetOutOfRange(file_size, read_offset) ==
  read_offset > file_size

----------------------------------------------------------------------------
(* DownloadsManager: state *)

\* An ActiveDownload is [file_size, file]; file names the open file description
\* its Arc<File> refers to.  A description is [handle, cursor, fds]: the file it
\* was opened on, its file offset, and the File values open on it.  The File of
\* a session is fd 0 of its description; File::try_clone duplicates the
\* descriptor, so the File of stream s is fd s of the same description and
\* shares its offset.  A description is gone when its last fd is closed.
SessionFd == 0

\* Closing fd of description d.
CloseFd(descs, d, fd) ==
  IF d \notin DOMAIN descs THEN descs
  ELSE IF descs[d].fds \ {fd} = {} THEN Without(descs, d)
  ELSE [descs EXCEPT ![d].fds = @ \ {fd}]

\* Variant of try_clone that hands out the File it was called on.
try_clone_same(fd, stream) ==
  fd

\* File::try_clone: a new File, fd stream, on the description of fd.
try_clone(fd, stream) ==
  stream

\* One holder of the Arc<File> of description d lets go; the File is closed
\* when no other holder is left (still_held).
DropArc(descs, d, still_held) ==
  IF still_held THEN descs ELSE CloseFd(descs, d, SessionFd)

\* The map refers to description d.
MapHolds(map, d) ==
  \E h \in DOMAIN map : map[h].file = d

\* The call in progress holds a clone of the ActiveDownload of description d.
ReaderHolds(d) ==
  reader.pc \in {"have", "reset"} /\ reader.download.file = d

\* Variant of set_download_for_expiry that leaves the old task running.
set_download_for_expiry_keep(tasks, task_map, handle) ==
  [ tasks |-> Append(tasks, [handle |-> handle, state |-> "sleeping"]),
    task_map |-> (handle :> (Len(tasks) + 1)) @@ task_map ]

\* set_download_for_expiry: spawn the task that sleeps and then sends the
\* handle, put it into the map, abort the task that was there.  abort() stops
\* a task that still sleeps (or waits to send); it does nothing to one that
\* has sent.
set_download_for_expiry(tasks, task_map, handle) ==
  LET task_handle == Len(tasks) + 1
      spawned == Append(tasks, [handle |-> handle, state |-> "sleeping"])
  IN [ tasks |-> IF handle \in DOMAIN task_map /\ tasks[task_map[handle]].state = "sleeping"
                 THEN [spawned EXCEPT ![task_map[handle]].state = "aborted"]
                 ELSE spawned,
       task_map |-> (handle :> task_handle) @@ task_map ]

\* The files in permanent storage when the server starts serving downloads.
DownloadHandle == OrderHandle
\* A handle no file is stored under.
MissingHandle == "h0"
DownloadHandles == {DownloadHandle, MissingHandle}

InitDownload ==
  /\ active_uploads_map = << >>
  /\ upload_dir = << >>
  /\ \E file_size \in StoredSizes :
       user_files_dir = (DownloadHandle :> StoredContainer(file_size))
  /\ issued_handles = {DownloadHandle}
  /\ last_call = Response("finalise_upload", DownloadHandle, "none", FALSE, "Ok")
  /\ client = IdleClient
  /\ NoFinalisers /\ NoDownloads /\ NoCalc /\ NoRequests

\* The size metadata() reports for the file of handle.
StoredFileSize(handle) == FileBytes(user_files_dir[handle])

\* The call returns: the clone of the ActiveDownload it held, if any, is dropped.
ReadReturns(status, stream, underflow, descs) ==
  /\ reader' = [pc |-> "idle", calls |-> reader.calls]
  /\ last_read' = [status |-> status, handle |-> reader.handle, chunk_id |-> reader.chunk_id,
                   stream |-> stream, underflow |-> underflow]
  /\ descriptions' =
       IF reader.pc \in {"have", "reset"}
       THEN DropArc(descs, reader.download.file,
                    MapHolds(active_downloads_map', reader.download.file))
       ELSE descs

----------------------------------------------------------------------------
(* try_read_chunk_as_stream, one call at a time (it takes &mut self) *)

\* The two mutexes of the DownloadsManager, named after the maps they guard.
DownloadsLock == "active_downloads_map"
ExpiryLock == "download_expiry_task_map"

\* The inactivity detector taking the lock of the expiry map first.
DetectorLockOrder_reversed ==
  <<ExpiryLock, DownloadsLock>>

\* The order in which the inactivity detector takes the two locks; it holds
\* both guards to the end of the loop body.
DetectorLockOrder ==
  <<DownloadsLock, ExpiryLock>>

\* The inactivity detector holds the lock of active_downloads_map from its
\* remove of the download to its remove of the task (at "expiry"); where its
\* acquisitions are steps of their own it is at "first" once it holds the
\* first lock of its order.
DetectorHolds(lock) ==
  \/ detector.pc = "expiry" /\ lock = DownloadsLock
  \/ detector.pc = "first" /\ lock = DetectorLockOrder[1]

\* open_file_for_download holds the lock of active_downloads_map while it
\* calls set_download_for_expiry, which takes the lock of the expiry map (the
\* call is at "arming" there); everywhere else a call takes one lock and
\* releases it within a step.
ReaderHoldsLock(lock) ==
  reader.pc = "arming" /\ lock = DownloadsLock

LockFree(lock) ==
  ~DetectorHolds(lock) /\ ~ReaderHoldsLock(lock)

DownloadsLockFree == LockFree(DownloadsLock)

\* get_download_or_start, "Try get download from the map and return it".
\* (tasks_before notes how many expiry tasks had been spawned when the call
\* began.)
ReadStart(handle, chunk_id) ==
  /\ reader.pc = "idle"
  /\ reader.calls < MaxReads
  /\ DownloadsLockFree
  /\ reader' = IF handle \in DOMAIN active_downloads_map
               THEN [pc |-> "have", calls |-> reader.calls + 1, handle |-> handle,
                     chunk_id |-> chunk_id, tasks_before |-> Len(expiry_tasks),
                     download |-> active_downloads_map[handle]]
               ELSE [pc |-> "open", calls |-> reader.calls + 1, handle |-> handle,
                     chunk_id |-> chunk_id, tasks_before |-> Len(expiry_tasks)]
  /\ UNCHANGED <<active_downloads_map, download_expiry_task_map, download_expiry_rx,
                 expiry_tasks, detector, streams, descriptions, last_read, last_expiry>>
  /\ UNCHANGED <<upload_vars, finalise_vars, format_vars, request_vars>>

\* What open_file_for_download does to the two maps, the tasks and the open
\* files when File::open and metadata succeed.  The description opened gets
\* the number of the task spawned with it.
open_file_for_download(handle) ==
  LET file == Len(expiry_tasks) + 1
      download == [file_size |-> StoredFileSize(handle), file |-> file]
      armed == set_download_for_expiry(expiry_tasks, download_expiry_task_map, handle)
  IN [ downloads |-> (handle :> download) @@ active_downloads_map,
       tasks |-> armed.tasks,
       task_map |-> armed.task_map,
       descriptions |-> (file :> [handle |-> handle, cursor |-> 0, fds |-> {SessionFd}])
                          @@ descriptions ]

\* Variant of open_file_for_download for a file that cannot be opened: it
\* registers a download of size 0 all the same.
open_file_for_download_anyway(handle) ==
  LET armed == set_download_for_expiry(expiry_tasks, download_expiry_task_map, handle)
  IN [ downloads |-> (handle :> [file_size |-> 0, file |-> 0]) @@ active_downloads_map,
       tasks |-> armed.tasks,
       task_map |-> armed.task_map,
       descriptions |-> descriptions ]

\* What open_file_for_download does when File::open or metadata fails: the ?
\* returns before anything is registered.
open_file_failed(handle) ==
  [ downloads |-> active_downloads_map,
    tasks |-> expiry_tasks,
    task_map |-> download_expiry_task_map,
    descriptions |-> descriptions ]

\* get_download_or_start, "Start new download".  open_ok and metadata_ok are
\* the outcomes of File::open and metadata for a file that is stored; a file
\* that is not stored cannot be opened.
ReadOpen(open_ok, metadata_ok) ==
  /\ reader.pc = "open"
  /\ LET opened == reader.handle \in DOMAIN user_files_dir /\ open_ok /\ metadata_ok
         r == IF opened THEN open_file_for_download(reader.handle)
              ELSE open_file_failed(reader.handle)
     IN /\ opened => DownloadsLockFree
        /\ active_downloads_map' = r.downloads
        /\ expiry_tasks' = r.tasks
        /\ download_expiry_task_map' = r.task_map
        /\ IF opened
           THEN /\ reader' = [reader EXCEPT !.pc = "opened"]
                /\ descriptions' = r.descriptions
                /\ UNCHANGED last_read
           ELSE ReadReturns("OpenFailed", 0, FALSE, r.descriptions)
  /\ UNCHANGED <<download_expiry_rx, detector, streams, last_expiry>>
  /\ UNCHANGED <<upload_vars, finalise_vars, format_vars, request_vars>>

\* get_download_or_start, "Try get download from the map again".
ReadLookupAgain ==
  /\ reader.pc = "opened"
  /\ DownloadsLockFree
  /\ UNCHANGED active_downloads_map
  /\ IF reader.handle \in DOMAIN active_downloads_map
     THEN /\ reader' = [pc |-> "have", calls |-> reader.calls, handle |-> reader.handle,
                        chunk_id |-> reader.chunk_id, tasks_before |-> reader.tasks_before,
                        download |-> active_downloads_map[reader.handle]]
          /\ UNCHANGED <<descriptions, last_read>>
     ELSE ReadReturns("FailedToStart", 0, FALSE, descriptions)
  /\ UNCHANGED <<download_expiry_task_map, download_expiry_rx, expiry_tasks, detector,
                 streams, last_expiry>>
  /\ UNCHANGED <<upload_vars, finalise_vars, format_vars, request_vars>>

\* try_read_chunk_as_stream from the size calculation to the stream: the
\* subtraction, the validation of the offset, try_clone, seek, take.  build is
\* the build of the server, io_ok the outcome of try_clone and seek.
ReadStream(build, io_ok) ==
  /\ reader.pc = "have"
  /\ UNCHANGED active_downloads_map
  /\ LET download == reader.download
         read_offset == calc_read_offset(reader.chunk_id)
         read_size == calc_read_size(download.file_size, read_offset)
         underflow == Underflows(download.file_size, read_offset)
         stream == Len(streams) + 1
     IN IF underflow /\ build = "debug"
        THEN ReadReturns("Panic", 0, TRUE, descriptions) /\ UNCHANGED streams
        ELSE IF OffsetOutOfRange(download.file_size, read_offset)
        THEN ReadReturns("ChunkOutOfRange", 0, underflow, descriptions) /\ UNCHANGED streams
        ELSE IF ~io_ok
        THEN ReadReturns("IoError", 0, underflow, descriptions) /\ UNCHANGED streams
        ELSE /\ streams' = Append(streams,
                  [handle |-> reader.handle, file |-> download.file,
                   fd |-> try_clone(SessionFd, stream),
                   read_offset |-> read_offset, read_size |-> read_size,
                   delivered |-> 0, state |-> "open"])
             /\ descriptions' = [descriptions EXCEPT
                                   ![download.file].fds = @ \cup {try_clone(SessionFd, stream)},
                                   ![download.file].cursor = read_offset]
             /\ reader' = [pc |-> "reset", calls |-> reader.calls, handle |-> reader.handle,
                           chunk_id |-> reader.chunk_id, tasks_before |-> reader.tasks_before,
                           download |-> download, stream |-> stream]
             /\ UNCHANGED last_read
  /\ UNCHANGED <<download_expiry_task_map, download_expiry_rx, expiry_tasks, detector,
                 last_expiry>>
  /\ UNCHANGED <<upload_vars, finalise_vars, format_vars, request_vars>>

\* "Set download for expiry (resets timer)", and the return of the stream.
ReadReset ==
  /\ reader.pc = "reset"
  /\ LockFree(ExpiryLock)
  /\ LET armed == set_download_for_expiry(expiry_tasks, download_expiry_task_map, reader.handle)
     IN /\ expiry_tasks' = armed.tasks
        /\ download_expiry_task_map' = armed.task_map
  /\ UNCHANGED active_downloads_map
  /\ ReadReturns("Ok", reader.stream, FALSE, descriptions)
  /\ UNCHANGED <<download_expiry_rx, detector, streams, last_expiry>>
  /\ UNCHANGED <<upload_vars, finalise_vars, format_vars, request_vars>>

----------------------------------------------------------------------------
(* The expiry tasks, the inactivity detector, the consumers of the streams *)

\* The task of set_download_for_expiry: its sleep is over and it sends its
\* handle.  (task is kept with the message to tell the senders apart; the
\* code sends the handle alone.)
ExpiryTaskSends(task) ==
  /\ task \in DOMAIN expiry_tasks
  /\ expiry_tasks[task].state = "sleeping"
  /\ Len(download_expiry_rx) < MaxChannel
  /\ expiry_tasks' = [expiry_tasks EXCEPT ![task].state = "sent"]
  /\ download_expiry_rx' = Append(download_expiry_rx,
                                  [handle |-> expiry_tasks[task].handle, task |-> task])
  /\ UNCHANGED <<active_downloads_map, download_expiry_task_map, detector, reader, streams,
                 descriptions, last_read, last_expiry>>
  /\ UNCHANGED <<upload_vars, finalise_vars, format_vars, request_vars>>

\* The task spawned last for handle.
LatestTask(handle) ==
  CHOOSE task \in DOMAIN expiry_tasks :
    /\ expiry_tasks[task].handle = handle
    /\ \A other \in DOMAIN expiry_tasks :
         expiry_tasks[other].handle = handle => other <= task

\* Variant of the removal below that leaves the download in the map.
remove_download_never(map, handle) ==
  map

\* downloads_map.remove(&handle)
remove_download(map, handle) ==
  Without(map, handle)

\* start_inactivity_detector: recv, then the remove of the download.  The
\* Arc<File> of a removed download is dropped with it.
DetectorRemovesDownload ==
  /\ detector.pc = "recv"
  /\ download_expiry_rx # << >>
  /\ LET signal == Head(download_expiry_rx)
         handle == signal.handle
         present == handle \in DOMAIN active_downloads_map
     IN /\ download_expiry_rx' = Tail(download_expiry_rx)
        /\ active_downloads_map' = remove_download(active_downloads_map, handle)
        /\ descriptions' =
             IF present /\ handle \notin DOMAIN active_downloads_map'
             THEN DropArc(descriptions, active_downloads_map[handle].file,
                          ReaderHolds(active_downloads_map[handle].file))
             ELSE descriptions
        /\ detector' = [pc |-> "expiry", handle |-> handle]
        /\ last_expiry' = [task |-> signal.task, handle |-> handle, removed |-> present,
                           latest |-> signal.task = LatestTask(handle)]
  /\ UNCHANGED <<download_expiry_task_map, expiry_tasks, reader, streams, last_read>>
  /\ UNCHANGED <<upload_vars, finalise_vars, format_vars, request_vars>>

\* start_inactivity_detector: the remove of the task.  The JoinHandle removed
\* is dropped, which leaves its task running.
DetectorRemovesTask ==
  /\ detector.pc = "expiry"
  /\ download_expiry_task_map' = Without(download_expiry_task_map, detector.handle)
  /\ detector' = [pc |-> "recv"]
  /\ UNCHANGED <<active_downloads_map, download_expiry_rx, expiry_tasks, reader, streams,
                 descriptions, last_read, last_expiry>>
  /\ UNCHANGED <<upload_vars, finalise_vars, format_vars, request_vars>>

\* A consumer takes the bytes of a stream in reads of at most this many bytes.
StreamPiece == ENCRYPTED_CHUNK_SIZE \div 2

\* The consumer of stream s polls it: a read of its File at the offset of the
\* description, of at most what take(read_size) has left.  The stream ends when
\* the limit or the end of the file is reached, and its File is closed then.
StreamRead(s) ==
  /\ s \in DOMAIN streams
  /\ streams[s].state = "open"
  /\ LET stream == streams[s]
         d == stream.file
     IN IF d \notin DOMAIN descriptions \/ stream.fd \notin descriptions[d].fds
        THEN /\ streams' = [streams EXCEPT ![s].state = "failed"]
             /\ UNCHANGED descriptions
        ELSE LET cursor == descriptions[d].cursor
                 left == StoredFileSize(stream.handle) - cursor
                 n == MinOf(MinOf(StreamPiece, stream.read_size - stream.delivered),
                            IF left > 0 THEN left ELSE 0)
                 ends == n = 0 \/ stream.delivered + n = stream.read_size
             IN /\ streams' = [streams EXCEPT
                                 ![s].delivered = @ + n,
                                 ![s].state = IF ends THEN "done" ELSE "open"]
                /\ descriptions' =
                     IF ends
                     THEN CloseFd([descriptions EXCEPT ![d].cursor = @ + n], d, stream.fd)
                     ELSE [descriptions EXCEPT ![d].cursor = @ + n]
  /\ UNCHANGED <<active_downloads_map, download_expiry_task_map, download_expiry_rx,
                 expiry_tasks, detector, reader, last_read, last_expiry>>
  /\ UNCHANGED <<upload_vars, finalise_vars, format_vars, request_vars>>

NextDownload ==
  \/ \E handle \in DownloadHandles, chunk_id \in ReadChunkIds : ReadStart(handle, chunk_id)
  \/ \E open_ok \in BOOLEAN, metadata_ok \in BOOLEAN : ReadOpen(open_ok, metadata_ok)
  \/ ReadLookupAgain
  \/ \E build \in Builds, io_ok \in BOOLEAN : ReadStream(build, io_ok)
  \/ ReadReset
  \/ \E task \in DOMAIN expiry_tasks : ExpiryTaskSends(task)
  \/ DetectorRemovesDownload
  \/ DetectorRemovesTask
  \/ \E s \in DOMAIN streams : StreamRead(s)

SpecDownload == InitDownload /\ [][NextDownload]_vars

\* Each expiry task and the inactivity detector is a task of the runtime of
\* its own (tokio::spawn): one that can take its next step does take it.
ExpiryTasks == 1..(2 * MaxReads)

SpecDownloadFair ==
  /\ SpecDownload
  /\ \A task \in ExpiryTasks : WF_vars(ExpiryTaskSends(task))
  /\ WF_vars(DetectorRemovesDownload)
  /\ WF_vars(DetectorRemovesTask)

----------------------------------------------------------------------------
(* Properties of the download side *)

Downloads == DOMAIN active_downloads_map

\* C14: a download that is open is removed in the end once no more reads
\* arrive, the expiry tasks and the inactivity detector being scheduled fairly.
\* (Every behaviour has finitely many reads, so reads stop in each of them.)
C14_EvictedWhenIdle ==
  \A handle \in DownloadHandles :
    (handle \in Downloads) ~> (handle \notin Downloads)

\* A download was opened and read, and the inactivity detector has removed it.
C14_Witness ==
  /\ last_read.status = "Ok"
  /\ last_expiry.task # 0
  /\ last_expiry.removed
  /\ last_expiry.handle \notin Downloads
  /\ reader.pc = "idle"

\* C15: the inactivity detector removes a download only on the signal of the
\* task armed last for its handle; the signal of a task that has been replaced
\* since, be it already in the channel, removes nothing.
C15_OnlyLatestTimerEvicts ==
  (last_expiry.task # 0 /\ last_expiry.removed) => last_expiry.latest

\* The stream s is the only one created on its description: no other seek or
\* read moves the offset it reads at.
AloneOnDescription(s) ==
  \A other \in DOMAIN streams : other # s => streams[other].file # streams[s].file

\* C16: a stream that was returned keeps its File open whatever happens to the
\* download it was read from: no read of it fails, and, when no other stream
\* shares its description, it ends having delivered read_size bytes.
C16_StreamOutlivesDownload ==
  \A s \in DOMAIN streams :
    /\ streams[s].state # "failed"
    /\ streams[s].state = "open" =>
         /\ streams[s].file \in DOMAIN descriptions
         /\ streams[s].fd \in descriptions[streams[s].file].fds
    /\ (streams[s].state = "done" /\ AloneOnDescription(s)) =>
         streams[s].delivered = streams[s].read_size

\* The download of a stream has been removed by the inactivity detector and
\* its File closed, with the stream part delivered and still open.
C16_Witness ==
  \E s \in DOMAIN streams :
    /\ streams[s].state = "open"
    /\ streams[s].delivered > 0
    /\ streams[s].delivered < streams[s].read_size
    /\ last_expiry.task # 0 /\ last_expiry.removed
    /\ streams[s].handle \notin Downloads
    /\ descriptions[streams[s].file].fds = {streams[s].fd}
    /\ reader.pc = "idle"

\* The size of the file of the call in progress, and the offset of its chunk.
CallFileSize == StoredFileSize(reader.handle)
CallOffset == reader.chunk_id * ENCRYPTED_CHUNK_SIZE + ENCRYPTED_FILE_HEADER_SIZE

C17_Step ==
  /\ \* the first read of a handle opens its download and records the file's size
     (reader.pc = "open" /\ reader'.pc = "opened") =>
       /\ reader.handle \in DOMAIN active_downloads_map'
       /\ active_downloads_map'[reader.handle].file_size = CallFileSize
  /\ \* a chunk within the file is not turned away as out of range
     (reader.pc = "have" /\ reader'.pc = "idle" /\ CallOffset <= CallFileSize) =>
       last_read'.status \notin {"ChunkOutOfRange", "Panic"}
  /\ \* the stream made starts at the chunk's offset and is limited to its size
     (reader.pc = "have" /\ reader'.pc = "reset") =>
       LET stream == streams'[reader'.stream]
       IN /\ CallOffset <= CallFileSize
          /\ stream.read_offset = CallOffset
          /\ stream.read_size = MinOf(ENCRYPTED_CHUNK_SIZE, CallFileSize - CallOffset)
          /\ descriptions'[stream.file].cursor = CallOffset
          /\ descriptions'[stream.file].handle = reader.handle
  /\ \* and it is this stream that the call returns
     (reader.pc = "reset" /\ reader'.pc = "idle") =>
       last_read'.status = "Ok" /\ last_read'.stream = reader.stream

\* A stream that has its description to itself reads on from where it started:
\* what it has delivered are the bytes from read_offset on.
C17_Position ==
  \A s \in DOMAIN streams :
    (streams[s].state = "open" /\ AloneOnDescription(s)) =>
      descriptions[streams[s].file].cursor = streams[s].read_offset + streams[s].delivered

\* C17: for a stored file and a chunk id whose offset chunk_id *
\* ENCRYPTED_CHUNK_SIZE + ENCRYPTED_FILE_HEADER_SIZE is within the file, the call
\* returns a stream of min(ENCRYPTED_CHUNK_SIZE, file_size - read_offset) bytes
\* positioned at that offset; the first read of a handle creates its download
\* with the file's size.
C17_ReadRange ==
  []C17_Position /\ [][C17_Step]_vars

\* The first call read chunk 1 of a file of a chunk and a half: it opened the
\* download and returned the short last chunk.
C17_Witness ==
  /\ last_read.status = "Ok"
  /\ last_read.chunk_id = 1
  /\ reader.calls = 1
  /\ streams[last_read.stream].read_offset = ENCRYPTED_CHUNK_SIZE + ENCRYPTED_FILE_HEADER_SIZE
  /\ streams[last_read.stream].read_size = HalfChunk + ENCRYPTED_CHUNK_EXTRA_DATA_SIZE
  /\ last_read.handle \in Downloads

\* C18: a chunk id whose offset is beyond the end of the file is answered
\* ChunkOutOfRange, and file_size - read_offset is not evaluated on the way:
\* no call underflows or panics.
C18_NoUnderflow ==
  last_read.status # "none" =>
    /\ last_read.status # "Panic"
    /\ ~last_read.underflow

C19_Step ==
  /\ (reader.pc = "idle" /\ reader'.pc = "open") =>
       /\ active_downloads_map' = active_downloads_map
       /\ download_expiry_task_map' = download_expiry_task_map
  /\ (reader.pc = "open" /\ reader' # reader
        /\ (reader.handle \notin DOMAIN user_files_dir \/ reader'.pc = "idle")) =>
       /\ reader'.pc = "idle"
       /\ last_read'.status = "OpenFailed"
       /\ active_downloads_map' = active_downloads_map
       /\ download_expiry_task_map' = download_expiry_task_map
       /\ expiry_tasks' = expiry_tasks
       /\ descriptions' = descriptions

\* C19: a call whose file cannot be opened returns an error and leaves the
\* downloads map, the expiry task map and the tasks as they were.
C19_FailedOpenLeavesNoTrace ==
  [][C19_Step]_vars

\* The file of the second call could not be opened; the download the first
\* call opened is still there.
C19_Witness ==
  /\ last_read.status = "OpenFailed"
  /\ reader.pc = "idle" /\ reader.calls = 2 /\ Len(streams) = 1
  /\ last_read.handle = MissingHandle
  /\ DownloadHandle \in Downloads
  /\ MissingHandle \notin Downloads
  /\ MissingHandle \notin DOMAIN download_expiry_task_map

----------------------------------------------------------------------------
(* formats.rs called on a raw file size *)

\* Raw file sizes go up to this many chunks.
MaxRawChunks == 16

\* At, just above, half way between and just below the multiples of CHUNK_DATA_SIZE.
RawFileSizes ==
  {k * CHUNK_DATA_SIZE + d : k \in 0..MaxRawChunks, d \in {0, 1, HalfChunk, CHUNK_DATA_SIZE - 1}}

InitFormats ==
  /\ active_uploads_map = << >>
  /\ upload_dir = << >>
  /\ user_files_dir = << >>
  /\ issued_handles = {}
  /\ last_call = Response("none", "", "none", FALSE, "Ok")
  /\ client = IdleClient
  /\ NoFinalisers /\ NoDownloads /\ NoRequests
  /\ \E raw_file_size \in RawFileSizes :
       calc = [op |-> "none", raw_file_size |-> raw_file_size]

CalcFileChunkCount ==
  /\ calc.op = "none"
  /\ calc' = [op |-> "calc_file_chunk_count", raw_file_size |-> calc.raw_file_size,
              result |-> calc_file_chunk_count(calc.raw_file_size)]
  /\ UNCHANGED <<upload_vars, finalise_vars, download_vars, request_vars>>

CalcEncryptedFileSize ==
  /\ calc.op = "none"
  /\ calc' = [op |-> "calc_encrypted_file_size", raw_file_size |-> calc.raw_file_size,
              result |-> calc_encrypted_file_size(calc.raw_file_size)]
  /\ UNCHANGED <<upload_vars, finalise_vars, download_vars, request_vars>>

\* The lengths a caller can hand to calc_raw_chunk_size: around the overhead
\* of a chunk, and around the size of a whole chunk.
EncryptedChunkSizes ==
  {0, 1, ENCRYPTED_CHUNK_EXTRA_DATA_SIZE - 1, ENCRYPTED_CHUNK_EXTRA_DATA_SIZE,
   ENCRYPTED_CHUNK_EXTRA_DATA_SIZE + 1, HalfChunk + ENCRYPTED_CHUNK_EXTRA_DATA_SIZE,
   ENCRYPTED_CHUNK_SIZE - 1, ENCRYPTED_CHUNK_SIZE}

\* The u64 subtraction: when the length is below the overhead the debug build
\* panics on the overflow and the release build returns the wrapped value.
CalcRawChunkSize(encrypted_chunk_size, build) ==
  /\ calc.op = "none"
  /\ LET result == calc_raw_chunk_size(encrypted_chunk_size)
     IN calc' = [op |-> "calc_raw_chunk_size", raw_file_size |-> calc.raw_file_size,
                 encrypted_chunk_size |-> encrypted_chunk_size,
                 status |-> IF result < 0 /\ build = "debug" THEN "Panic" ELSE "Ok",
                 wrapped |-> result < 0,
                 result |-> result]
  /\ UNCHANGED <<upload_vars, finalise_vars, download_vars, request_vars>>

NextFormats ==
  \/ CalcFileChunkCount
  \/ CalcEncryptedFileSize
  \/ \E encrypted_chunk_size \in EncryptedChunkSizes, build \in Builds :
       CalcRawChunkSize(encrypted_chunk_size, build)

SpecFormats == InitFormats /\ [][NextFormats]_vars

\* n is the least whole number of parts of size b that hold a.
IsCeil(n, a, b) ==
  n * b >= a /\ (n - 1) * b < a

\* C20: calc_file_chunk_count(raw) is raw / CHUNK_DATA_SIZE rounded up: 3 for a
\* file of 5 MiB, 0 for an empty file.
C20_ChunkCountIsCeil ==
  calc.op = "calc_file_chunk_count" =>
    /\ IsCeil(calc.result, calc.raw_file_size, CHUNK_DATA_SIZE)
    /\ calc.raw_file_size = 5 * 1048576 => calc.result = 3
    /\ calc.raw_file_size = 0 => calc.result = 0

\* The count of a file of 5 MiB has been computed.
C20_Witness ==
  /\ calc.op = "calc_file_chunk_count"
  /\ calc.raw_file_size = 5 * 1048576
  /\ calc.result = 3

\* C21: the encrypted file is larger than the raw file by the file header and
\* one chunk overhead per chunk, the number of chunks being the raw size over
\* CHUNK_DATA_SIZE rounded up.
C21_EncryptedSizeOverhead ==
  calc.op = "calc_encrypted_file_size" =>
    \E n \in 0..(MaxRawChunks + 1) :
      /\ IsCeil(n, calc.raw_file_size, CHUNK_DATA_SIZE)
      /\ calc.result - calc.raw_file_size
           = ENCRYPTED_FILE_HEADER_SIZE + n * ENCRYPTED_CHUNK_EXTRA_DATA_SIZE

\* The encrypted size of a file of 5 MiB has been computed: 3 chunks.
C21_Witness ==
  /\ calc.op = "calc_encrypted_file_size"
  /\ calc.raw_file_size = 5 * 1048576
  /\ calc.result = 5 * 1048576 + 4 + 3 * 44

\* C22: for every encrypted length that is at least the overhead of a chunk,
\* calc_raw_chunk_size returns a value, and the value plus the overhead is the
\* encrypted length again.
C22_RawPlusOverhead ==
  (/\ calc.op = "calc_raw_chunk_size"
   /\ calc.encrypted_chunk_size >= ENCRYPTED_CHUNK_EXTRA_DATA_SIZE)
    => /\ calc.status = "Ok"
       /\ ~calc.wrapped
       /\ calc.result + ENCRYPTED_CHUNK_EXTRA_DATA_SIZE = calc.encrypted_chunk_size

\* The raw size of a whole encrypted chunk has been computed.
C22_Witness ==
  /\ calc.op = "calc_raw_chunk_size"
  /\ calc.encrypted_chunk_size = ENCRYPTED_CHUNK_SIZE
  /\ calc.result = CHUNK_DATA_SIZE

\* C23: calc_raw_chunk_size on a length below the overhead of a chunk fails
\* loudly: it never returns a wrapped value.
C23_ShortLengthFailsLoudly ==
  (/\ calc.op = "calc_raw_chunk_size"
   /\ calc.encrypted_chunk_size < ENCRYPTED_CHUNK_EXTRA_DATA_SIZE)
    => /\ calc.status = "Panic"
       /\ ~(calc.status = "Ok" /\ calc.wrapped)

\* C24: a chunk ahead of its turn is taken into the buffer without a write, and
\* a call that succeeds has drained the buffer as far as it goes: the chunk
\* that is next afterwards is not among the buffered ones.
C24_GreedyDrain ==
  [][\A handle \in Handles :
       (ServesChunk(handle) /\ last_call'.status = "Ok") =>
         LET self == active_uploads_map[handle]
             after == active_uploads_map'[handle]
         IN /\ (after.prev_written_chunk_id + 1) \notin Buffered(after)
            /\ last_call'.turn = "ahead" =>
                 /\ after.buf_writer = self.buf_writer
                 /\ Cardinality(Buffered(after)) = Cardinality(Buffered(self)) + 1]_vars

\* C25: upload_chunk and finalise_upload on a handle that has no upload in the
\* map are answered UnknownHandle and change nothing; a finalise_upload call
\* that gets as far as the filesystem takes the upload out of the map, and a
\* handle that has left the map never returns to it.
C25_UnknownHandle ==
  [][\A handle \in Handles :
       /\ ( /\ handle \notin Uploads
            /\ last_call'.op \in {"upload_chunk", "finalise_upload"}
            /\ last_call'.handle = handle
            /\ last_call'.status # "BadRequest" ) =>
            /\ last_call'.status = "UnknownHandle"
            /\ active_uploads_map' = active_uploads_map
            /\ upload_dir' = upload_dir /\ user_files_dir' = user_files_dir
       /\ (Finalised(handle, "Ok") \/ Finalised(handle, "FinalizeIoError")) =>
            handle \notin DOMAIN active_uploads_map'
       /\ (handle \in issued_handles /\ handle \notin Uploads) =>
            handle \notin DOMAIN active_uploads_map']_vars

\* A finalise call was answered UnknownHandle for a handle whose upload an
\* earlier finalise call had moved into permanent storage.
C25_Witness ==
  /\ last_call.op = "finalise_upload"
  /\ last_call.status = "UnknownHandle"
  /\ last_call.handle \in DOMAIN user_files_dir
  /\ last_call.handle \notin Uploads

C27_FailureDeletesTemporaryFile ==
  [][\A handle \in Handles :
       ( \/ Finalised(handle, "StillBufferedChunks")
         \/ Finalised(handle, "IoError")
         \/ Finalised(handle, "FinalizeIoError") ) =>
         handle \notin DOMAIN upload_dir']_vars

\* The call of finaliser c starts its rename in this step.
Renames(c) ==
  /\ finalisers[c].pc = "flushed"
  /\ finalisers'[c].pc = "done"

\* C30: within finalise_upload the writer is flushed and shut down before the
\* rename, so the file that is moved holds everything that was written; the
\* call succeeds only with the file in permanent storage; and when the
\* shutdown fails the call fails without a rename.
C30_FlushBeforeRename ==
  [][\A c \in Finalisers :
       /\ Renames(c) =>
            /\ OrderHandle \in DOMAIN upload_dir
            /\ upload_dir[OrderHandle] = finalisers[c].upload.buf_writer
       /\ (finalisers[c].result # "Ok" /\ finalisers'[c].result = "Ok") =>
            /\ Renames(c)
            /\ OrderHandle \in DOMAIN user_files_dir'
            /\ user_files_dir'[OrderHandle] = finalisers[c].upload.buf_writer
       /\ (finalisers[c].result # "IoError" /\ finalisers'[c].result = "IoError") =>
            /\ finalisers[c].pc = "removed"
            /\ user_files_dir' = user_files_dir
            /\ upload_dir' = upload_dir
       /\ (OrderHandle \in DOMAIN user_files_dir' /\ OrderHandle \notin DOMAIN user_files_dir) =>
            \E d \in Finalisers : Renames(d) /\ finalisers'[d].result = "Ok"]_vars

\* A call has succeeded: the file, with two chunks in it, is in permanent storage.
C30_Witness ==
  /\ \E c \in DOMAIN finalisers : finalisers[c].pc = "done" /\ finalisers[c].result = "Ok"
  /\ OrderHandle \in DOMAIN user_files_dir
  /\ Len(user_files_dir[OrderHandle]) = 3
  /\ OrderHandle \notin DOMAIN upload_dir

\* The raw bytes of the chunks of a file: its bytes without the header and
\* without the overhead of each chunk.
RawBytes(file) ==
  FileBytes(file) - ENCRYPTED_FILE_HEADER_SIZE
    - (Len(file) - 1) * ENCRYPTED_CHUNK_EXTRA_DATA_SIZE

\* C28: written_bytes is 0 in a new upload and never decreases; a step changes
\* it by the raw lengths of the chunks it writes to the file and by nothing
\* else, so a call that rejects or only buffers its chunk leaves it alone.
C28_WrittenBytes ==
  [][\A handle \in Handles :
       /\ (handle \notin Uploads /\ handle \in DOMAIN active_uploads_map') =>
            active_uploads_map'[handle].written_bytes = 0
       /\ (handle \in Uploads /\ handle \in DOMAIN active_uploads_map') =>
            LET self == active_uploads_map[handle]
                after == active_uploads_map'[handle]
            IN /\ after.written_bytes >= self.written_bytes
               /\ after.written_bytes - self.written_bytes
                    = RawBytes(after.buf_writer) - RawBytes(self.buf_writer)
               /\ after.written_bytes = RawBytes(after.buf_writer)
               /\ ( \/ last_call'.status \in {"BadRequest", "UnknownHandle", "DuplicateChunk",
                                               "TooManyPendingChunks"}
                    \/ last_call'.turn \in {"stale", "ahead"} ) =>
                    /\ after.written_bytes = self.written_bytes
                    /\ after.buf_writer = self.buf_writer]_vars

\* One chunk is written and counted, and the call served last only buffered
\* a chunk that is ahead of its turn.
C28_Witness ==
  /\ last_call.op = "upload_chunk"
  /\ last_call.status = "Ok"
  /\ last_call.turn = "ahead"
  /\ last_call.handle \in Uploads
  /\ active_uploads_map[last_call.handle].written_bytes = CHUNK_DATA_SIZE
  /\ Len(active_uploads_map[last_call.handle].buf_writer) = 2
  /\ active_uploads_map[last_call.handle].buffered_chunks # << >>

\* C29: every chunk in the file of an upload has the encrypted length
\* min(CHUNK_DATA_SIZE, file_size - bytes written before it) plus the overhead,
\* so every chunk but the last one of the file is a full chunk.
C29_ChunkLengths ==
  \A handle \in Uploads :
    LET self == active_uploads_map[handle]
        file == self.buf_writer
    IN \A i \in 2..Len(file) :
         /\ file[i].len =
              MinOf(CHUNK_DATA_SIZE, self.file_size - RawBytes(SubSeq(file, 1, i - 1)))
                + ENCRYPTED_CHUNK_EXTRA_DATA_SIZE
         /\ file[i].id # calc_file_chunk_count(self.file_size) - 1 =>
              file[i].len = ENCRYPTED_CHUNK_SIZE

\* The call in progress returns in this step.
ReadCallReturns ==
  reader.pc # "idle" /\ reader'.pc = "idle"

\* The tasks that still sleep or wait to send: neither finished nor aborted.
LiveTasks(handle) ==
  {task \in DOMAIN expiry_tasks :
     expiry_tasks[task].handle = handle /\ expiry_tasks[task].state = "sleeping"}

\* C32: every call of try_read_chunk_as_stream on a handle that has a download
\* resets the expiry of the handle, whatever it returns: when the call returns,
\* the task in the expiry map is one that was spawned during the call.
C32_EveryCallResetsExpiry ==
  [][(ReadCallReturns /\ reader.pc \in {"have", "reset"} /\ reader.handle \in Downloads) =>
       /\ reader.handle \in DOMAIN download_expiry_task_map'
       /\ download_expiry_task_map'[reader.handle] > reader.tasks_before]_vars

\* C33: each handle has at most one expiry task that is neither finished nor
\* aborted.
C33_OneLiveTimer ==
  \A handle \in DownloadHandles : Cardinality(LiveTasks(handle)) <= 1

\* C34: the streams made from one download read at offsets of their own: each
\* open stream is at read_offset plus what it has delivered, whatever the
\* other streams do, and ends having delivered its read_size bytes.
C34_IndependentCursors ==
  \A s \in DOMAIN streams :
    /\ streams[s].state = "open" =>
         /\ streams[s].file \in DOMAIN descriptions
         /\ descriptions[streams[s].file].cursor = streams[s].read_offset + streams[s].delivered
    /\ streams[s].state = "done" => streams[s].delivered = streams[s].read_size

\* C38: every stream a call returns has at least one byte to deliver.
C38_NonEmptyStream ==
  \A s \in DOMAIN streams : streams[s].read_size >= 1

\* C39: with no call and no removal in progress, each download has its expiry
\* task, in the map and either asleep or with its signal in the channel, and a
\* handle without a download has no entry in the expiry map and no task that
\* is still to signal.
C39_RegistryAndTimersAgree ==
  (reader.pc = "idle" /\ detector.pc = "recv") =>
    \A handle \in DownloadHandles :
      /\ handle \in Downloads =>
           /\ handle \in DOMAIN download_expiry_task_map
           /\ LET task == download_expiry_task_map[handle]
              IN \/ expiry_tasks[task].state = "sleeping"
                 \/ /\ expiry_tasks[task].state = "sent"
                    /\ \E i \in DOMAIN download_expiry_rx : download_expiry_rx[i].task = task
      /\ handle \notin Downloads =>
           /\ handle \notin DOMAIN download_expiry_task_map
           /\ LiveTasks(handle) = {}

\* C35: the file of an upload never holds more chunks than its declared size
\* has, so nothing is written once written_bytes has reached file_size.
C35_NoChunkAfterCompletion ==
  \A handle \in Uploads :
    LET self == active_uploads_map[handle]
    IN Len(self.buf_writer) - 1 <= calc_file_chunk_count(self.file_size)

\* C36: every buffered chunk id is above the id of the chunk written last: no
\* chunk is both written and buffered.
C36_BufferedAboveWritten ==
  \A handle \in Uploads :
    LET self == active_uploads_map[handle]
    IN \A chunk_id \in Buffered(self) : chunk_id > self.prev_written_chunk_id

\* C37: while bytes are missing, the chunk with the next expected id and the
\* expected size is always taken and written: it is not turned away for a full
\* buffer, as a duplicate or for its size.
C37_NextChunkAccepted ==
  [][\A handle \in Uploads, chunk_id \in ChunkIds, data \in DataLens :
       ( /\ ChunkRequestValid(chunk_id, data)
         /\ active_uploads_map[handle].written_bytes < active_uploads_map[handle].file_size
         /\ chunk_id = active_uploads_map[handle].prev_written_chunk_id + 1
         /\ data = expected_enc_chunk_size(active_uploads_map[handle])
         /\ UploadChunk(handle, chunk_id, data) ) =>
         /\ last_call'.status = "Ok"
         /\ active_uploads_map'[handle].prev_written_chunk_id >= chunk_id
         /\ active_uploads_map'[handle].written_bytes
              > active_uploads_map[handle].written_bytes]_vars

----------------------------------------------------------------------------
(* The locks of the DownloadsManager, each acquisition a step of its own *)

\* tokio::spawn of the task of set_download_for_expiry, before the lock of the
\* expiry map is asked for.
spawn_expiry_task(tasks, handle) ==
  Append(tasks, [handle |-> handle, state |-> "sleeping"])

\* "insert(handle, task_handle)" under the lock of the expiry map, and the
\* abort of the task that was there.
insert_expiry_task(tasks, task_map, handle, task_handle) ==
  [ tasks |-> IF handle \in DOMAIN task_map /\ tasks[task_map[handle]].state = "sleeping"
              THEN [tasks EXCEPT ![task_map[handle]].state = "aborted"]
              ELSE tasks,
    task_map |-> (handle :> task_handle) @@ task_map ]

\* open_file_for_download up to the spawn in set_download_for_expiry: open,
\* metadata, the lock of active_downloads_map, the insert, the spawn.  The
\* call goes on to the lock of the expiry map with this lock held.
LockedReadOpen(open_ok, metadata_ok) ==
  /\ reader.pc = "open"
  /\ IF reader.handle \in DOMAIN user_files_dir /\ open_ok /\ metadata_ok
     THEN /\ LockFree(DownloadsLock)
          /\ active_downloads_map' = open_file_for_download(reader.handle).downloads
          /\ descriptions' = open_file_for_download(reader.handle).descriptions
          /\ expiry_tasks' = spawn_expiry_task(expiry_tasks, reader.handle)
          /\ reader' = [pc |-> "arming", calls |-> reader.calls, handle |-> reader.handle,
                        chunk_id |-> reader.chunk_id, tasks_before |-> reader.tasks_before,
                        task_handle |-> Len(expiry_tasks) + 1]
          /\ UNCHANGED last_read
     ELSE /\ UNCHANGED <<active_downloads_map, expiry_tasks>>
          /\ ReadReturns("OpenFailed", 0, FALSE, descriptions)
  /\ UNCHANGED <<download_expiry_task_map, download_expiry_rx, detector, streams, last_expiry>>
  /\ UNCHANGED <<upload_vars, finalise_vars, format_vars, request_vars>>

\* set_download_for_expiry within open_file_for_download: the lock of the
\* expiry map, the insert, the abort; then both locks are released.
LockedReadArm ==
  /\ reader.pc = "arming"
  /\ LockFree(ExpiryLock)
  /\ LET armed == insert_expiry_task(expiry_tasks, download_expiry_task_map,
                                     reader.handle, reader.task_handle)
     IN /\ expiry_tasks' = armed.tasks
        /\ download_expiry_task_map' = armed.task_map
  /\ reader' = [pc |-> "opened", calls |-> reader.calls, handle |-> reader.handle,
                chunk_id |-> reader.chunk_id, tasks_before |-> reader.tasks_before]
  /\ UNCHANGED <<active_downloads_map, download_expiry_rx, detector, streams, descriptions,
                 last_read, last_expiry>>
  /\ UNCHANGED <<upload_vars, finalise_vars, format_vars, request_vars>>

\* "while let Some(handle) = rx_guard.recv().await"
DetectorReceives ==
  /\ detector.pc = "recv"
  /\ download_expiry_rx # << >>
  /\ download_expiry_rx' = Tail(download_expiry_rx)
  /\ detector' = [pc |-> "got", handle |-> Head(download_expiry_rx).handle,
                  task |-> Head(download_expiry_rx).task]
  /\ UNCHANGED <<active_downloads_map, download_expiry_task_map, expiry_tasks, reader,
                 streams, descriptions, last_read, last_expiry>>
  /\ UNCHANGED <<upload_vars, finalise_vars, format_vars, request_vars>>

\* What the inactivity detector does once it holds lock: the remove from the
\* map the lock guards.
DetectorRemoves(lock) ==
  IF lock = DownloadsLock
  THEN LET handle == detector.handle
           present == handle \in DOMAIN active_downloads_map
       IN /\ active_downloads_map' = remove_download(active_downloads_map, handle)
          /\ descriptions' =
               IF present /\ handle \notin DOMAIN active_downloads_map'
               THEN DropArc(descriptions, active_downloads_map[handle].file,
                            ReaderHolds(active_downloads_map[handle].file))
               ELSE descriptions
          /\ last_expiry' = [task |-> detector.task, handle |-> handle, removed |-> present,
                             latest |-> detector.task = LatestTask(handle)]
          /\ UNCHANGED download_expiry_task_map
  ELSE /\ download_expiry_task_map' = Without(download_expiry_task_map, detector.handle)
       /\ UNCHANGED <<active_downloads_map, descriptions, last_expiry>>

\* The inactivity detector takes the first lock of its order and removes.
DetectorLocksFirst ==
  /\ detector.pc = "got"
  /\ LockFree(DetectorLockOrder[1])
  /\ DetectorRemoves(DetectorLockOrder[1])
  /\ detector' = [pc |-> "first", handle |-> detector.handle, task |-> detector.task]
  /\ UNCHANGED <<download_expiry_rx, expiry_tasks, reader, streams, last_read>>
  /\ UNCHANGED <<upload_vars, finalise_vars, format_vars, request_vars>>

\* It takes the second lock, removes, and drops both guards at the end of the
\* loop body.
DetectorLocksSecond ==
  /\ detector.pc = "first"
  /\ LockFree(DetectorLockOrder[2])
  /\ DetectorRemoves(DetectorLockOrder[2])
  /\ detector' = [pc |-> "recv"]
  /\ UNCHANGED <<download_expiry_rx, expiry_tasks, reader, streams, last_read>>
  /\ UNCHANGED <<upload_vars, finalise_vars, format_vars, request_vars>>

NextLocks ==
  \/ \E handle \in DownloadHandles, chunk_id \in ReadChunkIds : ReadStart(handle, chunk_id)
  \/ \E open_ok \in BOOLEAN, metadata_ok \in BOOLEAN : LockedReadOpen(open_ok, metadata_ok)
  \/ LockedReadArm
  \/ ReadLookupAgain
  \/ \E build \in Builds, io_ok \in BOOLEAN : ReadStream(build, io_ok)
  \/ ReadReset
  \/ \E task \in DOMAIN expiry_tasks : ExpiryTaskSends(task)
  \/ DetectorReceives
  \/ DetectorLocksFirst
  \/ DetectorLocksSecond

SpecLocks == InitDownload /\ [][NextLocks]_vars

\* The call in progress is a future the handler awaits, the expiry tasks and
\* the inactivity detector are tasks of the runtime: each takes its next step
\* when it can.  (When a call starts is up to the clients.)
SpecLocksFair ==
  /\ SpecLocks
  /\ WF_vars(\E open_ok \in BOOLEAN, metadata_ok \in BOOLEAN : LockedReadOpen(open_ok, metadata_ok))
  /\ WF_vars(LockedReadArm)
  /\ WF_vars(ReadLookupAgain)
  /\ WF_vars(\E build \in Builds, io_ok \in BOOLEAN : ReadStream(build, io_ok))
  /\ WF_vars(ReadReset)
  /\ \A task \in ExpiryTasks : WF_vars(ExpiryTaskSends(task))
  /\ WF_vars(DetectorReceives)
  /\ WF_vars(DetectorLocksFirst)
  /\ WF_vars(DetectorLocksSecond)

\* The lock the call in progress waits for, and the one the detector waits for.
ReaderWaitsFor(lock) ==
  \/ reader.pc = "arming" /\ lock = ExpiryLock
  \/ reader.pc = "reset" /\ lock = ExpiryLock
  \/ reader.pc = "opened" /\ lock = DownloadsLock

DetectorWaitsFor(lock) ==
  \/ detector.pc = "got" /\ lock = DetectorLockOrder[1]
  \/ detector.pc = "first" /\ lock = DetectorLockOrder[2]

\* The call and the detector each hold the lock the other waits for.
WaitCycle ==
  \E held, wanted \in {DownloadsLock, ExpiryLock} :
    /\ ReaderHoldsLock(held) /\ ReaderWaitsFor(wanted)
    /\ DetectorHolds(wanted) /\ DetectorWaitsFor(held)

\* C40: the call, the expiry tasks and the inactivity detector never wait on
\* each other for ever: no state has the call and the detector each holding
\* the lock the other asks for, every call that has begun returns, the
\* detector gets back to its recv after every signal, and every expiry task
\* gets its signal into the channel unless it is aborted.
C40_DeadlockFree ==
  /\ [](~WaitCycle)
  /\ (reader.pc # "idle") ~> (reader.pc = "idle")
  /\ (detector.pc # "recv") ~> (detector.pc = "recv")
  /\ \A task \in ExpiryTasks :
       (task \in LiveTasks(DownloadHandle)) ~> (task \notin LiveTasks(DownloadHandle))
  /\ (download_expiry_rx # << >>) ~> (download_expiry_rx = << >>)

\* The detector has a signal and waits for the lock of active_downloads_map,
\* which the call in progress holds while it asks for the lock of the expiry
\* map, with another signal waiting in the channel.
C40_Witness ==
  /\ reader.pc = "arming"
  /\ detector.pc = "got"
  /\ download_expiry_rx # << >>


----------------------------------------------------------------------------
(* The upload handlers of api/uploads.rs as concurrent requests *)

\* Requests in flight at once.
MaxCallers == 2
Callers == 1..MaxCallers
RequestHandles == {"h1", "h2"}
\* The uploads under SpecRequests are files of this many chunks.
RequestFileChunks == 1
RequestChunkIds == 0..RequestFileChunks

IdleRequest == [pc |-> "idle"]

\* Two uploads have been started, of one handle each.
InitRequests ==
  /\ active_uploads_map =
       [h \in RequestHandles |-> NewActiveUpload(RequestFileChunks * CHUNK_DATA_SIZE)]
  /\ upload_dir = [h \in RequestHandles |-> << >>]
  /\ user_files_dir = << >>
  /\ issued_handles = RequestHandles
  /\ last_call = Response("none", "", "none", FALSE, "Ok")
  /\ client = IdleClient
  /\ requests = [c \in Callers |-> IdleRequest]
  /\ app_state_lock = NoCaller
  /\ NoFinalisers /\ NoDownloads /\ NoCalc

\* A request has passed the validation of its handler and reaches
\* "let mut app_state = state.lock().await;".
RequestArrives(c, op, handle, chunk_id) ==
  /\ requests[c].pc = "idle"
  /\ requests' = [requests EXCEPT ![c] =
       [pc |-> "lock", op |-> op, handle |-> handle, chunk_id |-> chunk_id]]
  /\ UNCHANGED <<app_state_lock, upload_vars, finalise_vars, download_vars, format_vars>>

\* The Mutex around AppState is free and the request takes it.
RequestLocks(c) ==
  /\ requests[c].pc = "lock"
  /\ app_state_lock = NoCaller
  /\ app_state_lock' = c
  /\ requests' = [requests EXCEPT ![c].pc = "inside"]
  /\ UNCHANGED <<upload_vars, finalise_vars, download_vars, format_vars>>

\* The handler works on the upload of its handle and returns; the guard
\* app_state is dropped at the return.
RequestServes(c, shutdown_ok, rename_ok) ==
  /\ requests[c].pc = "inside"
  /\ IF requests[c].op = "upload_chunk"
     THEN UploadChunkServed(requests[c].handle, requests[c].chunk_id, ENCRYPTED_CHUNK_SIZE)
     ELSE FinaliseUploadServed(requests[c].handle, shutdown_ok, rename_ok)
  /\ app_state_lock' = NoCaller
  /\ requests' = [requests EXCEPT ![c] = IdleRequest]
  /\ UNCHANGED <<client, finalise_vars, download_vars, format_vars>>

NextRequests ==
  \/ \E c \in Callers, handle \in RequestHandles, chunk_id \in RequestChunkIds :
       RequestArrives(c, "upload_chunk", handle, chunk_id)
  \/ \E c \in Callers, handle \in RequestHandles :
       RequestArrives(c, "finalise_upload", handle, 0)
  \/ \E c \in Callers : RequestLocks(c)
  \/ \E c \in Callers, shutdown_ok \in BOOLEAN, rename_ok \in BOOLEAN :
       RequestServes(c, shutdown_ok, rename_ok)

SpecRequests == InitRequests /\ [][NextRequests]_vars

\* The request of caller c is at work on the upload of its handle.
InSession(c) == requests[c].pc = "inside"

\* The request of caller c waits for the lock that caller d holds.
WaitsOn(c, d) == requests[c].pc = "lock" /\ app_state_lock = d

\* C31: requests on the same handle are never inside the session together, and
\* a request never waits for a lock held by a request on a different handle.
C31_SessionExclusion ==
  /\ \A c, d \in Callers :
       c # d /\ InSession(c) /\ InSession(d) => requests[c].handle # requests[d].handle
  /\ \A c, d \in Callers :
       WaitsOn(c, d) => requests[d].handle = requests[c].handle

====
